---- MODULE Spec2Model ----
(***************************************************************************)
(* Model of main.py, the skeleton of the finance client/server framework.  *)
(*                                                                         *)
(* Two specifications share the variables:                                 *)
(*   Spec     the program run from the command line: main(sys.argv[1:]),   *)
(*            from an empty heap, for every argv over a token alphabet;    *)
(*   SpecAPI  the module used as a library: any sequence of constructor    *)
(*            and method calls on SQLiteDatabase, FinanceServer,           *)
(*            FinanceRequestHandler, FinanceClient and ClientUI objects.   *)
(*                                                                         *)
(* Python function bodies are operators over an interpreter state          *)
(*   st = [heap, exc, log]                                                 *)
(* heap: every object allocated so far (a reference is an index, 0 is      *)
(* None); exc: the exception in flight (NoExc when none), with the line of *)
(* the raise statement; log: the calls made, in order, each with the       *)
(* function entered and its arguments.                                     *)
(***************************************************************************)
EXTENDS Integers, Sequences, FiniteSets

VARIABLES argv, pc, args, heap, call, exc, log

vars == <<argv, pc, args, heap, call, exc, log>>

(* ------------------------------ bounds --------------------------------- *)

\* Longest command line explored: sub-command, --host H, --port P.
MaxArgs == 5

\* Most objects a library session allocates.
MaxHeap == 3

(* --------------------------- interpreter ------------------------------- *)

NoExc == [type |-> "none", line |-> 0]

NotImplementedError(line) == [type |-> "NotImplementedError", line |-> line]

\* A call: the function entered and the arguments it was entered with.
Enter(st, fn, arguments) ==
    [st EXCEPT !.log = Append(@, [fn |-> fn, args |-> arguments])]

Raise(st, e) == [st EXCEPT !.exc = e]

Alloc(st, obj) == [st EXCEPT !.heap = Append(@, obj)]

Fresh(h) == [heap |-> h, exc |-> NoExc, log |-> <<>>]

(* ------------------------------ data model ----------------------------- *)

\* DB_PATH = Path(__file__).with_name("finance.db")
DB_PATH == "finance.db"

\* Optional[int]: <<>> is None, <<n>> is n.
None == <<>>

User(username, password, role, id) ==
    [cls |-> "User", username |-> username, password |-> password,
     role |-> role, id |-> id]

Bill(user_id, kind, amount, category, notes, id) ==
    [cls |-> "Bill", user_id |-> user_id, kind |-> kind, amount |-> amount,
     category |-> category, notes |-> notes, id |-> id]

Session(user, token) == [cls |-> "Session", user |-> user, token |-> token]

(* ---------------------------- SQLiteDatabase --------------------------- *)

SQLiteDatabase_init(st, path) ==
    Alloc(Enter(st, "SQLiteDatabase.__init__", <<path>>),
          [cls |-> "SQLiteDatabase", path |-> path])

\* A body that creates the tables and returns.
Mut_SQLiteDatabase_initialize(st, self) ==
    Enter(st, "SQLiteDatabase.initialize", <<self>>)

SQLiteDatabase_initialize(st, self) ==
    Raise(Enter(st, "SQLiteDatabase.initialize", <<self>>), NotImplementedError(85))

SQLiteDatabase_authenticate(st, self, username, password) ==
    Raise(Enter(st, "SQLiteDatabase.authenticate", <<self, username, password>>), NotImplementedError(89))

SQLiteDatabase_fetch_user_records(st, self, user_id) ==
    Raise(Enter(st, "SQLiteDatabase.fetch_user_records", <<self, user_id>>), NotImplementedError(93))

SQLiteDatabase_fetch_all_records(st, self) ==
    Raise(Enter(st, "SQLiteDatabase.fetch_all_records", <<self>>), NotImplementedError(97))

SQLiteDatabase_upsert_record(st, self, bill) ==
    Raise(Enter(st, "SQLiteDatabase.upsert_record", <<self, bill>>), NotImplementedError(101))

\* A body that returns an (empty) list instead of raising.
Mut_SQLiteDatabase_list_users(st, self) ==
    Enter(st, "SQLiteDatabase.list_users", <<self>>)

SQLiteDatabase_list_users(st, self) ==
    Raise(Enter(st, "SQLiteDatabase.list_users", <<self>>), NotImplementedError(105))

SQLiteDatabase_create_user(st, self, user) ==
    Raise(Enter(st, "SQLiteDatabase.create_user", <<self, user>>), NotImplementedError(109))

(* ----------------------------- FinanceServer --------------------------- *)

FinanceServer_init(st, host, port, storage) ==
    Alloc(Enter(st, "FinanceServer.__init__", <<host, port, storage>>),
          [cls |-> "FinanceServer", host |-> host, port |-> port,
           storage |-> storage])

FinanceServer_start(st, self) ==
    Raise(Enter(st, "FinanceServer.start", <<self>>), NotImplementedError(135))

FinanceServer_stop(st, self) ==
    Raise(Enter(st, "FinanceServer.stop", <<self>>), NotImplementedError(139))

(* ------------------------- FinanceRequestHandler ----------------------- *)

FinanceRequestHandler_init(st, storage) ==
    Alloc(Enter(st, "FinanceRequestHandler.__init__", <<storage>>),
          [cls |-> "FinanceRequestHandler", storage |-> storage, session |-> 0])

FinanceRequestHandler_dispatch(st, self, payload) ==
    Raise(Enter(st, "FinanceRequestHandler.dispatch", <<self, payload>>), NotImplementedError(162))

\* A body that does what its comment announces: it builds a Session for the
\* user and stores it in self.session.
Mut_FinanceRequestHandler__handle_login(st, self, username, password) ==
    LET s0 == Enter(st, "FinanceRequestHandler._handle_login", <<self, username, password>>)
        s1 == Alloc(s0, User(username, password, "user", None))
        s2 == Alloc(s1, Session(Len(s1.heap), "token"))
    IN  [s2 EXCEPT !.heap[self].session = Len(s2.heap)]

FinanceRequestHandler__handle_login(st, self, username, password) ==
    Raise(Enter(st, "FinanceRequestHandler._handle_login", <<self, username, password>>), NotImplementedError(166))

FinanceRequestHandler__handle_logout(st, self) ==
    Raise(Enter(st, "FinanceRequestHandler._handle_logout", <<self>>), NotImplementedError(170))

FinanceRequestHandler__handle_fetch(st, self, scope) ==
    Raise(Enter(st, "FinanceRequestHandler._handle_fetch", <<self, scope>>), NotImplementedError(174))

FinanceRequestHandler__handle_update(st, self, bill_data) ==
    Raise(Enter(st, "FinanceRequestHandler._handle_update", <<self, bill_data>>), NotImplementedError(178))

FinanceRequestHandler__handle_admin_actions(st, self, payload) ==
    Raise(Enter(st, "FinanceRequestHandler._handle_admin_actions", <<self, payload>>),
          NotImplementedError(181))

FinanceRequestHandler__require_login(st, self) ==
    Raise(Enter(st, "FinanceRequestHandler._require_login", <<self>>), NotImplementedError(185))

(* ----------------------------- FinanceClient --------------------------- *)

\* A constructor that keeps the client's default address instead of the
\* host it is given.
Mut_FinanceClient_init(st, host, port) ==
    Alloc(Enter(st, "FinanceClient.__init__", <<host, port>>),
          [cls |-> "FinanceClient", host |-> "127.0.0.1", port |-> port])

FinanceClient_init(st, host, port) ==
    Alloc(Enter(st, "FinanceClient.__init__", <<host, port>>),
          [cls |-> "FinanceClient", host |-> host, port |-> port])

FinanceClient_connect(st, self) ==
    Raise(Enter(st, "FinanceClient.connect", <<self>>), NotImplementedError(202))

FinanceClient_login(st, self, username, password) ==
    Raise(Enter(st, "FinanceClient.login", <<self, username, password>>), NotImplementedError(206))

FinanceClient_logout(st, self) ==
    Raise(Enter(st, "FinanceClient.logout", <<self>>), NotImplementedError(210))

FinanceClient_fetch_records(st, self, scope) ==
    Raise(Enter(st, "FinanceClient.fetch_records", <<self, scope>>), NotImplementedError(214))

\* A body that stamps the bill with an id before it fails to send it.
Mut_FinanceClient_update_record(st, self, bill) ==
    LET s0 == Enter(st, "FinanceClient.update_record", <<self, bill>>)
        s1 == [s0 EXCEPT !.heap[bill].id = <<1>>]
    IN  Raise(s1, NotImplementedError(218))

FinanceClient_update_record(st, self, bill) ==
    Raise(Enter(st, "FinanceClient.update_record", <<self, bill>>), NotImplementedError(218))

FinanceClient_list_users(st, self) ==
    Raise(Enter(st, "FinanceClient.list_users", <<self>>), NotImplementedError(222))

FinanceClient_create_user(st, self, user) ==
    Raise(Enter(st, "FinanceClient.create_user", <<self, user>>), NotImplementedError(226))

(* -------------------------------- ClientUI ----------------------------- *)

ClientUI_init(st, client) ==
    Alloc(Enter(st, "ClientUI.__init__", <<client>>),
          [cls |-> "ClientUI", client |-> client, session |-> 0])

ClientUI__login_flow(st, self) ==
    Raise(Enter(st, "ClientUI._login_flow", <<self>>), NotImplementedError(246))

ClientUI__main_menu(st, self) ==
    Raise(Enter(st, "ClientUI._main_menu", <<self>>), NotImplementedError(256))

\* The two statements of run in the other order.
Mut_ClientUI_run(st, self) ==
    LET s0 == Enter(st, "ClientUI.run", <<self>>)
        s1 == ClientUI__main_menu(s0, self)
    IN  IF s1.exc # NoExc THEN s1 ELSE ClientUI__login_flow(s1, self)

ClientUI_run(st, self) ==
    LET s0 == Enter(st, "ClientUI.run", <<self>>)
        s1 == ClientUI__login_flow(s0, self)                     \* line 241
    IN  IF s1.exc # NoExc THEN s1 ELSE ClientUI__main_menu(s1, self)   \* line 242

(* ----------------------- run_server / run_client ----------------------- *)

run_server(st, host, port) ==
    LET s0 == Enter(st, "run_server", <<host, port>>)
        s1 == SQLiteDatabase_init(s0, DB_PATH)                   \* line 261
        storage == Len(s1.heap)
        s2 == SQLiteDatabase_initialize(s1, storage)             \* line 262
        s3 == FinanceServer_init(s2, host, port, storage)        \* line 263
        server == Len(s3.heap)
    IN  IF s2.exc # NoExc THEN s2 ELSE FinanceServer_start(s3, server)  \* line 264

\* connect wrapped in a try/except that swallows the failure and returns.
Mut_run_client(st, host, port) ==
    LET s0 == Enter(st, "run_client", <<host, port>>)
        s1 == FinanceClient_init(s0, host, port)
        client == Len(s1.heap)
        s2 == FinanceClient_connect(s1, client)
    IN  IF s2.exc # NoExc THEN [s2 EXCEPT !.exc = NoExc]
        ELSE ClientUI_run(ClientUI_init(s2, client), Len(s2.heap) + 1)

run_client(st, host, port) ==
    LET s0 == Enter(st, "run_client", <<host, port>>)
        s1 == FinanceClient_init(s0, host, port)                 \* line 269
        client == Len(s1.heap)
        s2 == FinanceClient_connect(s1, client)                  \* line 270
        s3 == ClientUI_init(s2, client)                          \* line 271
        ui == Len(s3.heap)
    IN  IF s2.exc # NoExc THEN s2 ELSE ClientUI_run(s3, ui)      \* line 272

(* ------------------------------ parse_args ----------------------------- *)

\* The command-line words explored.  "10.0.0.5" and "8080" are plain words,
\* "-1" looks like a negative number, "--host" and "--port" are option
\* strings.  (-h/--help and abbreviated or "="-joined options are left out.)
Tokens == {"server", "client", "--host", "--port", "10.0.0.5", "8080", "-1"}

ArgvSet == UNION {[1..n -> Tokens] : n \in 0..MaxArgs}

\* argparse's classification of a word: 'O' when it starts with a prefix
\* character and is neither a negative number nor a lone "-"; here the
\* registered option strings.  "-1" matches the negative-number pattern and
\* no parser here has options that look like negative numbers, so it is 'A'.
IsOptional(tok) == tok \in {"--host", "--port"}

\* type=int: int(word) succeeds on these words and raises ValueError on the rest.
IsInt(tok) == tok \in {"8080", "-1"}

IntOf(tok) == IF tok = "8080" THEN 8080 ELSE IF tok = "-1" THEN 0 - 1 ELSE 0

DefaultPort == 9000

ParserError == [ok |-> FALSE, ns |-> [mode |-> "", host |-> "", port |-> 0]]

ServerDefaults == [mode |-> "server", host |-> "0.0.0.0", port |-> DefaultPort]

\* The server's default address pasted into the client sub-parser.
Mut_ClientDefaults == [mode |-> "client", host |-> "0.0.0.0", port |-> DefaultPort]

ClientDefaults == [mode |-> "client", host |-> "127.0.0.1", port |-> DefaultPort]

\* A sub-parser over the words after the sub-command: it has the options
\* --host (a string) and --port (type=int), each taking one argument, and no
\* positionals, so any other word is an unrecognized argument.
RECURSIVE SubParse(_, _)
SubParse(toks, ns) ==
    IF toks = <<>> THEN [ok |-> TRUE, ns |-> ns]
    ELSE IF ~IsOptional(toks[1]) THEN ParserError           \* unrecognized arguments
    ELSE IF Len(toks) < 2 \/ IsOptional(toks[2]) THEN ParserError  \* expected one argument
    ELSE IF toks[1] = "--host"
         THEN SubParse(SubSeq(toks, 3, Len(toks)), [ns EXCEPT !.host = toks[2]])
    ELSE IF ~IsInt(toks[2]) THEN ParserError                \* invalid int value
    ELSE SubParse(SubSeq(toks, 3, Len(toks)), [ns EXCEPT !.port = IntOf(toks[2])])

\* Index of the first word the top-level parser takes as a positional
\* (0 when there is none); the option-like words before it are unknown to
\* the top-level parser and are collected as unrecognized.
FirstPositional(a) ==
    IF \E i \in 1..Len(a) : ~IsOptional(a[i])
    THEN CHOOSE i \in 1..Len(a) :
            ~IsOptional(a[i]) /\ \A j \in 1..(i - 1) : IsOptional(a[j])
    ELSE 0

\* A parser whose sub-command is optional and falls back to the client.
Mut_parse_args(a) ==
    LET k == FirstPositional(a) IN
    IF k = 0 \/ a[k] \notin {"server", "client"}
    THEN [ok |-> TRUE, ns |-> ClientDefaults]
    ELSE LET r == SubParse(SubSeq(a, k + 1, Len(a)),
                           IF a[k] = "server" THEN ServerDefaults ELSE ClientDefaults)
         IN  IF r.ok /\ k > 1 THEN ParserError ELSE r

parse_args(a) ==
    LET k == FirstPositional(a) IN
    IF k = 0 THEN ParserError                                \* required=True: mode missing
    ELSE IF a[k] \notin {"server", "client"} THEN ParserError   \* invalid choice
    ELSE LET r == SubParse(SubSeq(a, k + 1, Len(a)),
                           IF a[k] = "server" THEN ServerDefaults ELSE ClientDefaults)
         IN  IF r.ok /\ k > 1 THEN ParserError               \* unrecognized arguments
             ELSE r

\* parser.error prints usage and calls sys.exit(2) inside parse_args (line 288).
SystemExit == [type |-> "SystemExit", line |-> 288]

(* --------------------------------- main -------------------------------- *)

\* The test on the mode inverted.
Mut_main_dispatch(st, ns) ==
    IF ns.mode # "server"
    THEN run_server(st, ns.host, ns.port)
    ELSE run_client(st, ns.host, ns.port)

\* Lines 293-296 of main.
main_dispatch(st, ns) ==
    IF ns.mode = "server"
    THEN run_server(st, ns.host, ns.port)
    ELSE run_client(st, ns.host, ns.port)

NoArgs == [mode |-> "", host |-> "", port |-> 0]

NoCall == [fn |-> "", self |-> 0, arg |-> 0]

\* `python main.py <argv>`: nothing allocated, main about to be called.
Init ==
    /\ argv \in ArgvSet
    /\ pc = "module:300"
    /\ args = NoArgs
    /\ heap = <<>>
    /\ call = NoCall
    /\ exc = NoExc
    /\ log = <<>>

\* Line 300: main(sys.argv[1:]).
CallMain ==
    /\ pc = "module:300"
    /\ pc' = "main:292"
    /\ log' = Append(log, [fn |-> "main", args |-> <<argv>>])
    /\ call' = [fn |-> "main", self |-> 0, arg |-> 0]
    /\ UNCHANGED <<argv, args, heap, exc>>

\* Line 292: args = parse_args(argv).
MainParseArgs ==
    /\ pc = "main:292"
    /\ LET r == parse_args(argv) IN
         /\ log' = Append(log, [fn |-> "parse_args", args |-> <<argv>>])
         /\ IF r.ok
            THEN /\ args' = r.ns
                 /\ pc' = "main:293"
                 /\ exc' = exc
            ELSE /\ args' = args
                 /\ pc' = "exit"
                 /\ exc' = SystemExit
    /\ UNCHANGED <<argv, heap, call>>

\* Lines 293-296: the run function, to its end; whatever it raises leaves main.
MainDispatch ==
    /\ pc = "main:293"
    /\ LET st == main_dispatch([heap |-> heap, exc |-> exc, log |-> log], args) IN
         /\ heap' = st.heap
         /\ exc' = st.exc
         /\ log' = st.log
    /\ pc' = "exit"
    /\ UNCHANGED <<argv, args, call>>

Next == CallMain \/ MainParseArgs \/ MainDispatch

Spec == Init /\ [][Next]_vars

(* ------------------------- the module as a library --------------------- *)

Paths == {DB_PATH, "other.db"}

Hosts == {"0.0.0.0", "127.0.0.1"}

Ports == {9000, 8080}

Usernames == {"alice"}

Passwords == {"pw"}

Roles == {"admin", "user"}

UserIds == {1}

Kinds == {"expense"}

Scopes == {"own", "all"}

Payloads == {"login", "fetch"}

\* The live instances of a class.
Refs(cls) == {i \in 1..Len(heap) : heap[i].cls = cls}

\* The end of a top-level call: its effects become the state.
Commit(fn, self, arg, st) ==
    /\ heap' = st.heap
    /\ exc' = st.exc
    /\ log' = st.log
    /\ call' = [fn |-> fn, self |-> self, arg |-> arg]
    /\ UNCHANGED <<argv, pc, args>>

\* `import main`: __name__ is not "__main__", so line 300 does not run.
InitAPI ==
    /\ argv = <<>>
    /\ pc = "import"
    /\ args = NoArgs
    /\ heap = <<>>
    /\ call = NoCall
    /\ exc = NoExc
    /\ log = <<>>

New_SQLiteDatabase ==
    /\ Len(heap) < MaxHeap
    /\ \E path \in Paths :
        Commit("SQLiteDatabase.__init__", 0, 0, SQLiteDatabase_init(Fresh(heap), path))

New_FinanceServer ==
    /\ Len(heap) < MaxHeap
    /\ \E host \in Hosts, port \in Ports, storage \in Refs("SQLiteDatabase") :
        Commit("FinanceServer.__init__", 0, storage,
               FinanceServer_init(Fresh(heap), host, port, storage))

New_FinanceRequestHandler ==
    /\ Len(heap) < MaxHeap
    /\ \E storage \in Refs("SQLiteDatabase") :
        Commit("FinanceRequestHandler.__init__", 0, storage,
               FinanceRequestHandler_init(Fresh(heap), storage))

New_FinanceClient ==
    /\ Len(heap) < MaxHeap
    /\ \E host \in Hosts, port \in Ports :
        Commit("FinanceClient.__init__", 0, 0, FinanceClient_init(Fresh(heap), host, port))

New_ClientUI ==
    /\ Len(heap) < MaxHeap
    /\ \E client \in Refs("FinanceClient") :
        Commit("ClientUI.__init__", 0, client, ClientUI_init(Fresh(heap), client))

New_User ==
    /\ Len(heap) < MaxHeap
    /\ \E username \in Usernames, password \in Passwords, role \in Roles :
        Commit("User.__init__", 0, 0,
               Alloc(Fresh(heap), User(username, password, role, None)))

New_Bill ==
    /\ Len(heap) < MaxHeap
    /\ \E user_id \in UserIds, kind \in Kinds, id \in {None, <<1>>} :
        Commit("Bill.__init__", 0, 0,
               Alloc(Fresh(heap), Bill(user_id, kind, 100, "food", "", id)))

Call_run_server ==
    /\ Len(heap) < MaxHeap
    /\ \E host \in Hosts, port \in Ports :
        Commit("run_server", 0, 0, run_server(Fresh(heap), host, port))

Call_run_client ==
    /\ Len(heap) < MaxHeap
    /\ \E host \in Hosts, port \in Ports :
        Commit("run_client", 0, 0, run_client(Fresh(heap), host, port))

\* SQLiteDatabase: each method called on any live instance, with any arguments.
Call_SQLiteDatabase_initialize ==
    \E self \in Refs("SQLiteDatabase") :
        Commit("SQLiteDatabase.initialize", self, 0, SQLiteDatabase_initialize(Fresh(heap), self))

Call_SQLiteDatabase_authenticate ==
    \E self \in Refs("SQLiteDatabase"), username \in Usernames, password \in Passwords :
        Commit("SQLiteDatabase.authenticate", self, 0, SQLiteDatabase_authenticate(Fresh(heap), self, username, password))

Call_SQLiteDatabase_fetch_user_records ==
    \E self \in Refs("SQLiteDatabase"), user_id \in UserIds :
        Commit("SQLiteDatabase.fetch_user_records", self, 0, SQLiteDatabase_fetch_user_records(Fresh(heap), self, user_id))

Call_SQLiteDatabase_fetch_all_records ==
    \E self \in Refs("SQLiteDatabase") :
        Commit("SQLiteDatabase.fetch_all_records", self, 0, SQLiteDatabase_fetch_all_records(Fresh(heap), self))

Call_SQLiteDatabase_upsert_record ==
    \E self \in Refs("SQLiteDatabase"), bill \in Refs("Bill") :
        Commit("SQLiteDatabase.upsert_record", self, bill, SQLiteDatabase_upsert_record(Fresh(heap), self, bill))

Call_SQLiteDatabase_list_users ==
    \E self \in Refs("SQLiteDatabase") :
        Commit("SQLiteDatabase.list_users", self, 0, SQLiteDatabase_list_users(Fresh(heap), self))

Call_SQLiteDatabase_create_user ==
    \E self \in Refs("SQLiteDatabase"), user \in Refs("User") :
        Commit("SQLiteDatabase.create_user", self, user, SQLiteDatabase_create_user(Fresh(heap), self, user))

\* FinanceServer: each method called on any live instance, with any arguments.
Call_FinanceServer_start ==
    \E self \in Refs("FinanceServer") :
        Commit("FinanceServer.start", self, 0, FinanceServer_start(Fresh(heap), self))

Call_FinanceServer_stop ==
    \E self \in Refs("FinanceServer") :
        Commit("FinanceServer.stop", self, 0, FinanceServer_stop(Fresh(heap), self))

\* FinanceRequestHandler: each method called on any live instance, with any arguments.
Call_FinanceRequestHandler_dispatch ==
    \E self \in Refs("FinanceRequestHandler"), payload \in Payloads :
        Commit("FinanceRequestHandler.dispatch", self, 0, FinanceRequestHandler_dispatch(Fresh(heap), self, payload))

Call_FinanceRequestHandler__handle_login ==
    \E self \in Refs("FinanceRequestHandler"), username \in Usernames, password \in Passwords :
        Commit("FinanceRequestHandler._handle_login", self, 0, FinanceRequestHandler__handle_login(Fresh(heap), self, username, password))

Call_FinanceRequestHandler__handle_logout ==
    \E self \in Refs("FinanceRequestHandler") :
        Commit("FinanceRequestHandler._handle_logout", self, 0, FinanceRequestHandler__handle_logout(Fresh(heap), self))

Call_FinanceRequestHandler__handle_fetch ==
    \E self \in Refs("FinanceRequestHandler"), scope \in Scopes :
        Commit("FinanceRequestHandler._handle_fetch", self, 0, FinanceRequestHandler__handle_fetch(Fresh(heap), self, scope))

Call_FinanceRequestHandler__handle_update ==
    \E self \in Refs("FinanceRequestHandler"), payload \in Payloads :
        Commit("FinanceRequestHandler._handle_update", self, 0, FinanceRequestHandler__handle_update(Fresh(heap), self, payload))

Call_FinanceRequestHandler__handle_admin_actions ==
    \E self \in Refs("FinanceRequestHandler"), payload \in Payloads :
        Commit("FinanceRequestHandler._handle_admin_actions", self, 0, FinanceRequestHandler__handle_admin_actions(Fresh(heap), self, payload))

Call_FinanceRequestHandler__require_login ==
    \E self \in Refs("FinanceRequestHandler") :
        Commit("FinanceRequestHandler._require_login", self, 0, FinanceRequestHandler__require_login(Fresh(heap), self))

\* FinanceClient: each method called on any live instance, with any arguments.
Call_FinanceClient_connect ==
    \E self \in Refs("FinanceClient") :
        Commit("FinanceClient.connect", self, 0, FinanceClient_connect(Fresh(heap), self))

Call_FinanceClient_login ==
    \E self \in Refs("FinanceClient"), username \in Usernames, password \in Passwords :
        Commit("FinanceClient.login", self, 0, FinanceClient_login(Fresh(heap), self, username, password))

Call_FinanceClient_logout ==
    \E self \in Refs("FinanceClient") :
        Commit("FinanceClient.logout", self, 0, FinanceClient_logout(Fresh(heap), self))

Call_FinanceClient_fetch_records ==
    \E self \in Refs("FinanceClient"), scope \in Scopes :
        Commit("FinanceClient.fetch_records", self, 0, FinanceClient_fetch_records(Fresh(heap), self, scope))

Call_FinanceClient_update_record ==
    \E self \in Refs("FinanceClient"), bill \in Refs("Bill") :
        Commit("FinanceClient.update_record", self, bill, FinanceClient_update_record(Fresh(heap), self, bill))

Call_FinanceClient_list_users ==
    \E self \in Refs("FinanceClient") :
        Commit("FinanceClient.list_users", self, 0, FinanceClient_list_users(Fresh(heap), self))

Call_FinanceClient_create_user ==
    \E self \in Refs("FinanceClient"), user \in Refs("User") :
        Commit("FinanceClient.create_user", self, user, FinanceClient_create_user(Fresh(heap), self, user))

\* ClientUI: each method called on any live instance, with any arguments.
Call_ClientUI_run ==
    \E self \in Refs("ClientUI") :
        Commit("ClientUI.run", self, 0, ClientUI_run(Fresh(heap), self))

Call_ClientUI__login_flow ==
    \E self \in Refs("ClientUI") :
        Commit("ClientUI._login_flow", self, 0, ClientUI__login_flow(Fresh(heap), self))

Call_ClientUI__main_menu ==
    \E self \in Refs("ClientUI") :
        Commit("ClientUI._main_menu", self, 0, ClientUI__main_menu(Fresh(heap), self))

MethodNames ==
    {"SQLiteDatabase.initialize", "SQLiteDatabase.authenticate", 
     "SQLiteDatabase.fetch_user_records", 
     "SQLiteDatabase.fetch_all_records", "SQLiteDatabase.upsert_record", 
     "SQLiteDatabase.list_users", "SQLiteDatabase.create_user", 
     "FinanceServer.start", "FinanceServer.stop", 
     "FinanceRequestHandler.dispatch", 
     "FinanceRequestHandler._handle_login", 
     "FinanceRequestHandler._handle_logout", 
     "FinanceRequestHandler._handle_fetch", 
     "FinanceRequestHandler._handle_update", 
     "FinanceRequestHandler._handle_admin_actions", 
     "FinanceRequestHandler._require_login", "FinanceClient.connect", 
     "FinanceClient.login", "FinanceClient.logout", 
     "FinanceClient.fetch_records", "FinanceClient.update_record", 
     "FinanceClient.list_users", "FinanceClient.create_user", 
     "ClientUI.run", "ClientUI._login_flow", "ClientUI._main_menu"}

NextAPI ==
    \/ New_SQLiteDatabase \/ New_FinanceServer \/ New_FinanceRequestHandler
    \/ New_FinanceClient \/ New_ClientUI \/ New_User \/ New_Bill
    \/ Call_run_server \/ Call_run_client
    \/ Call_SQLiteDatabase_initialize
    \/ Call_SQLiteDatabase_authenticate
    \/ Call_SQLiteDatabase_fetch_user_records
    \/ Call_SQLiteDatabase_fetch_all_records
    \/ Call_SQLiteDatabase_upsert_record
    \/ Call_SQLiteDatabase_list_users
    \/ Call_SQLiteDatabase_create_user
    \/ Call_FinanceServer_start
    \/ Call_FinanceServer_stop
    \/ Call_FinanceRequestHandler_dispatch
    \/ Call_FinanceRequestHandler__handle_login
    \/ Call_FinanceRequestHandler__handle_logout
    \/ Call_FinanceRequestHandler__handle_fetch
    \/ Call_FinanceRequestHandler__handle_update
    \/ Call_FinanceRequestHandler__handle_admin_actions
    \/ Call_FinanceRequestHandler__require_login
    \/ Call_FinanceClient_connect
    \/ Call_FinanceClient_login
    \/ Call_FinanceClient_logout
    \/ Call_FinanceClient_fetch_records
    \/ Call_FinanceClient_update_record
    \/ Call_FinanceClient_list_users
    \/ Call_FinanceClient_create_user
    \/ Call_ClientUI_run
    \/ Call_ClientUI__login_flow
    \/ Call_ClientUI__main_menu

SpecAPI == InitAPI /\ [][NextAPI]_vars

(* ------------------------------- properties ---------------------------- *)

\* The names of the functions entered, in order.
FnNames == [i \in 1..Len(log) |-> log[i].fn]

Entered(fn) == \E i \in 1..Len(log) : log[i].fn = fn

\* The calls of one function, in order.
Calls(fn) == SelectSeq(log, LAMBDA e : e.fn = fn)

Live(cls) == {i \in 1..Len(heap) : heap[i].cls = cls}

\* main has got past parse_args with a parsed command line.
Parsed == Entered("parse_args") /\ exc.type # "SystemExit"

\* C1: every method of SQLiteDatabase, FinanceServer, FinanceRequestHandler,
\* FinanceClient and ClientUI, on any instance, with any arguments and after
\* any earlier calls, ends in NotImplementedError and never returns.
C1_MethodsRaiseNotImplemented ==
    call.fn \in MethodNames => exc.type = "NotImplementedError"

\* list_users was called on a database that exists and has failed.
C1_Witness ==
    /\ call.fn = "SQLiteDatabase.list_users"
    /\ heap[call.self].cls = "SQLiteDatabase"
    /\ exc = NotImplementedError(105)

\* A command line of the documented shape: a sub-command followed by
\* --host H / --port P pairs, H a plain word and P a word int() accepts.
WellFormed(a) ==
    /\ Len(a) >= 1
    /\ Len(a) % 2 = 1
    /\ a[1] \in {"server", "client"}
    /\ \A i \in 2..Len(a) :
        IF i % 2 = 0
        THEN a[i] \in {"--host", "--port"}
        ELSE /\ a[i] \notin {"--host", "--port"}
             /\ a[i - 1] = "--port" => a[i] \in {"8080", "-1"}

\* The word given for an option (the last one when it is repeated), or the
\* default d when the option is absent.
Given(a, opt, d) ==
    IF \E i \in 1..Len(a) : a[i] = opt
    THEN LET i == CHOOSE i \in 1..Len(a) :
                     a[i] = opt /\ \A j \in (i + 1)..Len(a) : a[j] # opt
         IN  a[i + 1]
    ELSE d

PortNumber(w) == CASE w = "9000" -> 9000 [] w = "8080" -> 8080 [] w = "-1" -> 0 - 1

\* C2: parse_args(["server"]) is (server, 0.0.0.0, 9000), parse_args(["client"])
\* is (client, 127.0.0.1, 9000), and a given --host H and/or --port P replaces
\* exactly the corresponding default, leaving the other field and the mode.
C2_ParseArgsDefaultsAndOverrides ==
    Entered("parse_args") =>
        /\ argv = <<"server">> =>
              Parsed /\ args = [mode |-> "server", host |-> "0.0.0.0", port |-> 9000]
        /\ argv = <<"client">> =>
              Parsed /\ args = [mode |-> "client", host |-> "127.0.0.1", port |-> 9000]
        /\ WellFormed(argv) =>
              /\ Parsed
              /\ args.mode = argv[1]
              /\ args.host = Given(argv, "--host",
                                   IF argv[1] = "server" THEN "0.0.0.0" ELSE "127.0.0.1")
              /\ args.port = PortNumber(Given(argv, "--port", "9000"))

\* `client --port 8080` has been parsed: the port is replaced, the host is not.
C2_Witness ==
    /\ argv = <<"client", "--port", "8080">>
    /\ Parsed
    /\ args = [mode |-> "client", host |-> "127.0.0.1", port |-> 8080]

\* C3: main enters exactly one run function, the one of the parsed mode, with
\* the parsed host and port; never both, and never neither once argv parsed.
C3_MainDispatchesToOneRunFunction ==
    /\ ~(Entered("run_server") /\ Entered("run_client"))
    /\ (pc = "exit" /\ Parsed) =>
          /\ args.mode \in {"server", "client"}
          /\ args.mode = "server" =>
                /\ Calls("run_server") =
                      <<[fn |-> "run_server", args |-> <<args.host, args.port>>]>>
                /\ Calls("run_client") = <<>>
          /\ args.mode = "client" =>
                /\ Calls("run_client") =
                      <<[fn |-> "run_client", args |-> <<args.host, args.port>>]>>
                /\ Calls("run_server") = <<>>

\* main has ended after `server --host 10.0.0.5` and run_server was entered.
C3_Witness ==
    /\ pc = "exit"
    /\ args.mode = "server"
    /\ args.host = "10.0.0.5"
    /\ Entered("run_server")

\* C4: with a parsed argv, the first NotImplementedError raised inside the run
\* function leaves the run function and main unchanged: the failing call is the
\* last call made, it was made once, and main does not return normally.
C4_FailurePropagatesOutOfMain ==
    (pc = "exit" /\ Parsed) =>
        LET failing == IF args.mode = "server" THEN "SQLiteDatabase.initialize"
                       ELSE "FinanceClient.connect"
            raisedAt == IF args.mode = "server" THEN 85 ELSE 202
        IN  /\ exc = NotImplementedError(raisedAt)
            /\ log[Len(log)].fn = failing
            /\ Len(Calls(failing)) = 1

\* main has ended in client mode with the failure of connect in flight.
C4_Witness ==
    /\ pc = "exit"
    /\ args.mode = "client"
    /\ exc = NotImplementedError(202)
    /\ Entered("FinanceClient.connect")

\* C5: whatever methods of FinanceRequestHandler and ClientUI have been called,
\* the session of every handler and of every UI is still None, and no Session
\* object exists.
C5_SessionNeverPopulated ==
    /\ \A i \in Live("FinanceRequestHandler") \cup Live("ClientUI") :
          heap[i].session = 0
    /\ Live("Session") = {}

\* _handle_login has been called on a handler.
C5_Witness ==
    /\ call.fn = "FinanceRequestHandler._handle_login"
    /\ heap[call.self].cls = "FinanceRequestHandler"
    /\ Entered("FinanceRequestHandler._handle_login")

\* C6: run_server makes a SQLiteDatabase, calls initialize on it and fails
\* there; no FinanceServer is ever constructed nor started.
C6_RunServerFailsAtInitialize ==
    /\ Live("FinanceServer") = {}
    /\ ~Entered("FinanceServer.__init__")
    /\ ~Entered("FinanceServer.start")
    /\ Entered("run_server") =>
          /\ FnNames = <<"main", "parse_args", "run_server",
                         "SQLiteDatabase.__init__", "SQLiteDatabase.initialize">>
          /\ heap = <<[cls |-> "SQLiteDatabase", path |-> DB_PATH]>>
          /\ log[Len(log)].args = <<1>>
          /\ exc = NotImplementedError(85)

\* run_server has run for `server --port 8080`.
C6_Witness ==
    /\ Entered("run_server")
    /\ args.port = 8080
    /\ Live("SQLiteDatabase") = {1}

\* C7: run_client makes a FinanceClient holding exactly the host and port it
\* was given, calls connect on it and fails there; no ClientUI is constructed,
\* and ClientUI.run, ClientUI._login_flow and FinanceClient.login are not called.
C7_RunClientFailsAtConnect ==
    /\ Live("ClientUI") = {}
    /\ ~Entered("ClientUI.__init__")
    /\ ~Entered("ClientUI.run")
    /\ ~Entered("ClientUI._login_flow")
    /\ ~Entered("FinanceClient.login")
    /\ Entered("run_client") =>
          /\ FnNames = <<"main", "parse_args", "run_client",
                         "FinanceClient.__init__", "FinanceClient.connect">>
          /\ heap = <<[cls |-> "FinanceClient", host |-> args.host,
                       port |-> args.port]>>
          /\ log[Len(log)].args = <<1>>
          /\ exc = NotImplementedError(202)

\* run_client has run for `client --host 10.0.0.5 --port 8080`.
C7_Witness ==
    /\ Entered("run_client")
    /\ args.host = "10.0.0.5"
    /\ args.port = 8080
    /\ Live("FinanceClient") = {1}

\* C8: ClientUI.run calls _login_flow first and ends with the failure raised
\* there; it calls neither _main_menu nor any method of its FinanceClient.
C8_RunStopsAtLoginFlow ==
    call.fn = "ClientUI.run" =>
        /\ log = <<[fn |-> "ClientUI.run", args |-> <<call.self>>],
                   [fn |-> "ClientUI._login_flow", args |-> <<call.self>>]>>
        /\ exc = NotImplementedError(246)

\* run has been called on a ClientUI that holds a FinanceClient.
C8_Witness ==
    /\ call.fn = "ClientUI.run"
    /\ heap[call.self].cls = "ClientUI"
    /\ heap[heap[call.self].client].cls = "FinanceClient"

\* C9: a method call that fails leaves every object as it was: the object it
\* was called on, the User or Bill it was given, and every other object.
C9_FailedCallChangesNothing ==
    [][(call'.fn \in MethodNames /\ exc'.type = "NotImplementedError")
          => heap' = heap]_vars

\* update_record has failed on a client that was given a Bill without an id.
C9_Witness ==
    /\ call.fn = "FinanceClient.update_record"
    /\ heap[call.self].cls = "FinanceClient"
    /\ heap[call.arg].cls = "Bill"
    /\ heap[call.arg].id = None
    /\ exc.type = "NotImplementedError"

\* The command line names no sub-command, or one that is neither server nor
\* client.
NoSubCommand(a) == a = <<>> \/ a[1] \notin {"server", "client"}

====
